---- MODULE Spec2Model ----
(***************************************************************************)
(* react-intl's IntlProvider (packages/react-intl/src/components/          *)
(* provider.tsx): the config normalizer processIntlConfig, the context     *)
(* builder createIntl, and the change-detection gate                       *)
(* IntlProvider.getDerivedStateFromProps, as a state machine.              *)
(*                                                                         *)
(* JavaScript values are records [t, v]: t is the type tag, v a string.    *)
(* For a primitive v is its value; for an object or a function v is its    *)
(* reference, so that = on values is JavaScript's ===.                     *)
(***************************************************************************)
EXTENDS Integers, Sequences, FiniteSets, TLC

VARIABLES
  phase,     \* "constructed" | "mounted" (provider), "direct" (createIntl called directly)
  props,     \* this.props of the provider: the props object React last delivered
  state,     \* this.state: [cache, intl, prevConfig]
  caches,    \* the heap of IntlCache objects: caches[c] maps a formatter key to an instance
  calls,     \* the createIntl calls made so far, oldest first: argument, result, diagnostics
  last,      \* what the last lifecycle step did
  got,       \* the formatter-accessor calls made so far and what each returned
  rich       \* rich-text formatting: the values a caller holds, the key-assignment
             \* calls and the formatMessage calls made with them

vars == <<phase, props, state, caches, calls, last, got, rich>>

----------------------------------------------------------------------------
(* Bounds of the model. *)

\* createIntl calls in one run (the construction of a provider included)
MaxCalls == 3
\* formatter-accessor calls in one run
MaxGets == 2
\* processIntlConfig calls a caller of createIntl makes in one run
MaxNormalize == 2
\* formatMessage calls in one run, and key-assignment calls made directly
MaxFormats == 2
MaxAssigns == 1
\* occurrences of the rich-text tag in the message that is formatted
Expansions == 3

----------------------------------------------------------------------------
(* JavaScript values. *)

Undefined == [t |-> "undefined", v |-> "undefined"]
Str(s) == [t |-> "string", v |-> s]
Bool(b) == [t |-> "boolean", v |-> b]
Obj(r) == [t |-> "object", v |-> r]
Fn(f) == [t |-> "function", v |-> f]

\* ToBoolean, as `!locale`, `onError &&`, `defaultLocale || 'en'` and `!values` apply it
Truthy(x) ==
  /\ x.t # "undefined"
  /\ ~(x.t = "string" /\ x.v = "")
  /\ ~(x.t = "boolean" /\ x.v = "false")

\* a template literal's `${x}` of a string or of undefined
TemplateText(x) == x.v

\* The content of the configuration objects the model passes around. Two
\* references with the same content are two objects that are deep-equal.
ObjectContent(r) ==
  CASE r \in {"messages1", "messages2"} -> "{hello: 'Hello'}"
    [] r = "messages3" -> "{hello: 'Bonjour'}"
    [] r \in {"formats1", "formats2"} -> "{number: {eur: {style: 'currency'}}}"
    [] r \in {"formats0", "messages0", "defaultFormats0"} -> "{}"
    [] r = "defaultFormats1" -> "{date: {short: {month: 'short'}}}"
    [] r = "elements1" -> "{b: bold}"
    [] r \in {"options1", "options2"} -> "{style: 'percent'}"
    [] r = "options3" -> "{}"
    [] OTHER -> r

\* config[k], undefined when the object has no such property
Get(o, k) == IF k \in DOMAIN o THEN o[k] ELSE Undefined

\* {...a, ...b}
Spread(a, b) ==
  [k \in (DOMAIN a) \cup (DOMAIN b) |-> IF k \in DOMAIN b THEN b[k] ELSE a[k]]

\* the object o without property k (a rest pattern {k: _, ...rest})
Rest(o, k) == [j \in (DOMAIN o) \ {k} |-> o[j]]

----------------------------------------------------------------------------
(* The recognized fields and the defaults. *)

RecognizedFields ==
  {"locale", "timeZone", "formats", "textComponent", "messages",
   "defaultLocale", "defaultFormats", "onError",
   "wrapRichTextChunksInFragment", "defaultRichTextElements"}

\* DEFAULT_INTL_CONFIG of ../utils
DEFAULT_INTL_CONFIG ==
  [formats |-> Obj("formats0"),
   messages |-> Obj("messages0"),
   timeZone |-> Undefined,
   textComponent |-> Fn("React.Fragment"),
   defaultLocale |-> Str("en"),
   defaultFormats |-> Obj("defaultFormats0"),
   onError |-> Fn("defaultErrorHandler")]

\* React resolves static defaultProps: a prop that is undefined takes its default
ResolveDefaultProps(raw) ==
  [k \in (DOMAIN raw) \cup (DOMAIN DEFAULT_INTL_CONFIG) |->
     IF Get(raw, k) = Undefined /\ k \in DOMAIN DEFAULT_INTL_CONFIG
     THEN DEFAULT_INTL_CONFIG[k]
     ELSE raw[k]]

\* the locales the platform has data for, per capability
NumberFormatSupported == {"en", "fr", "dd"}
DateTimeFormatSupported == {"en", "fr", "nn"}

\* Intl.NumberFormat.supportedLocalesOf(locale).length
NumberFormatSupportedLocalesOf(locale) ==
  IF locale.v \in NumberFormatSupported THEN 1 ELSE 0

\* Intl.DateTimeFormat.supportedLocalesOf(locale).length
DateTimeFormatSupportedLocalesOf(locale) ==
  IF locale.v \in DateTimeFormatSupported THEN 1 ELSE 0

----------------------------------------------------------------------------
(* processIntlConfig *)

processIntlConfig_KeepsAll(config) == config

processIntlConfig_DropsTimeZone(config) ==
  [k \in RecognizedFields \ {"timeZone"} |-> Get(config, k)]

processIntlConfig_AppliesDefaults(config) ==
  [k \in RecognizedFields |->
     IF Get(config, k) = Undefined /\ k \in DOMAIN DEFAULT_INTL_CONFIG
     THEN DEFAULT_INTL_CONFIG[k]
     ELSE Get(config, k)]

processIntlConfig(config) ==
  [k \in RecognizedFields |-> Get(config, k)]

\* shallowEquals of shallow-equal/objects: the same number of keys, and each
\* key of a is a key of b holding the === value
shallowEquals_Deep(a, b) ==
  /\ Cardinality(DOMAIN a) = Cardinality(DOMAIN b)
  /\ \A k \in DOMAIN a :
       /\ k \in DOMAIN b
       /\ \/ a[k] = b[k]
          \/ /\ a[k].t = "object" /\ b[k].t = "object"
             /\ ObjectContent(a[k].v) = ObjectContent(b[k].v)

shallowEquals(a, b) ==
  /\ Cardinality(DOMAIN a) = Cardinality(DOMAIN b)
  /\ \A k \in DOMAIN a : k \in DOMAIN b /\ a[k] = b[k]

----------------------------------------------------------------------------
(* Rich-text key assignment. *)

\* no formatMessage call is made with values
NoRichText == [values |-> Undefined, assigned |-> <<>>, formatted |-> <<>>]

\* the rich-text element maps a configuration may carry
ElementEntries(r) ==
  CASE r = "elements1" -> [b |-> Fn("bold"), sep |-> Str("|")]
    [] r = "elements2" -> [b |-> Fn("bold"), sep |-> Str("|")]
    [] OTHER -> [sep |-> Str("|")]

\* isFormatXMLElementFn of intl-messageformat
isFormatXMLElementFn(v) == v.t = "function"

\* assignUniqueKeysToParts of ../utils: a new function wrapping v
assignUniqueKeysToParts(v) == Fn("keyed(" \o v.v \o ")")

\* the reduce of lines 99-105, on the entries of the map
AssignedEntries(m) ==
  [k \in DOMAIN m |->
     IF isFormatXMLElementFn(m[k]) THEN assignUniqueKeysToParts(m[k]) ELSE m[k]]

\* on the value: a falsy argument is returned as it is, a map yields a new object
assignUniqueKeysToFormatXMLElementFnArgument(values) ==
  IF ~Truthy(values) THEN values ELSE Obj("keyed(" \o values.v \o ")")

----------------------------------------------------------------------------
(* The formatter cache of @formatjs/intl. *)

\* createIntlCache(): a cache with no entry
EmptyCache == [k \in {} |-> 0]

\* createFormatters(cache): the accessor bundle closes over the cache it is
\* given, or over a new one when it is given none (0 stands for undefined).
\* The result names that cache and the heap after the call.
createFormatters(cache, heap) ==
  IF cache = 0
  THEN [cache |-> Len(heap) + 1, heap |-> Append(heap, EmptyCache)]
  ELSE [cache |-> cache, heap |-> heap]

\* the formatter instances constructed so far
Instances(heap) ==
  UNION {{heap[c][k] : k \in DOMAIN heap[c]} : c \in 1..Len(heap)}

\* the key an accessor memoizes under: its kind and the serialization of its
\* arguments (locale, options)
FormatterKey(kind, locale, opts) == <<kind, locale.v, ObjectContent(opts)>>

\* an accessor of the bundle over cache c, called with the arguments of key:
\* the instance the cache holds for key, else a new one, which it stores
getFormatter(c, heap, key) ==
  IF key \in DOMAIN heap[c]
  THEN [formatter |-> heap[c][key], heap |-> heap]
  ELSE LET new == Cardinality(Instances(heap)) + 1
       IN [formatter |-> new,
           heap |-> [heap EXCEPT ![c] =
                       [k \in (DOMAIN heap[c]) \cup {key} |->
                          IF k = key THEN new ELSE heap[c][k]]]]

----------------------------------------------------------------------------
(* createIntl *)

\* lines 140-147: the resolved configuration before locale resolution
MergedConfig(config) ==
  Spread(Spread(DEFAULT_INTL_CONFIG, Rest(config, "defaultRichTextElements")),
         [defaultRichTextElements |->
            assignUniqueKeysToFormatXMLElementFnArgument(
              Get(config, "defaultRichTextElements"))])

LocaleDiagnostics_SeparateChecks(resolved) ==
  LET locale == Get(resolved, "locale")
      defaultLocale == Get(resolved, "defaultLocale")
      onError == Get(resolved, "onError")
      Diag(kind, api, named) ==
        [handler |-> onError.v, callable |-> onError.t = "function",
         kind |-> kind, api |-> api,
         locale |-> named, fallback |-> TemplateText(defaultLocale)]
  IN IF ~Truthy(locale)
     THEN IF Truthy(onError)
          THEN <<Diag("InvalidConfigError", "none", "none")>>
          ELSE <<>>
     ELSE (IF NumberFormatSupportedLocalesOf(locale) = 0 /\ Truthy(onError)
           THEN <<Diag("MissingDataError", "Intl.NumberFormat", TemplateText(locale))>>
           ELSE <<>>)
          \o
          (IF DateTimeFormatSupportedLocalesOf(locale) = 0 /\ Truthy(onError)
           THEN <<Diag("MissingDataError", "Intl.DateTimeFormat", TemplateText(locale))>>
           ELSE <<>>)

LocaleDiagnostics_Unguarded(resolved) ==
  LET locale == Get(resolved, "locale")
      defaultLocale == Get(resolved, "defaultLocale")
      onError == Get(resolved, "onError")
      Diag(kind, api, named) ==
        [handler |-> onError.v, callable |-> onError.t = "function",
         kind |-> kind, api |-> api,
         locale |-> named, fallback |-> TemplateText(defaultLocale)]
  IN IF ~Truthy(locale)
     THEN <<Diag("InvalidConfigError", "none", "none")>>
     ELSE IF NumberFormatSupportedLocalesOf(locale) = 0
     THEN <<Diag("MissingDataError", "Intl.NumberFormat", TemplateText(locale))>>
     ELSE IF DateTimeFormatSupportedLocalesOf(locale) = 0
     THEN <<Diag("MissingDataError", "Intl.DateTimeFormat", TemplateText(locale))>>
     ELSE <<>>

LocaleDiagnostics_DateTimeFirst(resolved) ==
  LET locale == Get(resolved, "locale")
      defaultLocale == Get(resolved, "defaultLocale")
      onError == Get(resolved, "onError")
      Diag(kind, api, named) ==
        [handler |-> onError.v, callable |-> onError.t = "function",
         kind |-> kind, api |-> api,
         locale |-> named, fallback |-> TemplateText(defaultLocale)]
  IN IF ~Truthy(locale)
     THEN IF Truthy(onError)
          THEN <<Diag("InvalidConfigError", "none", "none")>>
          ELSE <<>>
     ELSE IF DateTimeFormatSupportedLocalesOf(locale) = 0 /\ Truthy(onError)
     THEN <<Diag("MissingDataError", "Intl.DateTimeFormat", TemplateText(locale))>>
     ELSE IF NumberFormatSupportedLocalesOf(locale) = 0 /\ Truthy(onError)
     THEN <<Diag("MissingDataError", "Intl.NumberFormat", TemplateText(locale))>>
     ELSE <<>>

\* the diagnostics of lines 149-179, in the order onError receives them
LocaleDiagnostics(resolved) ==
  LET locale == Get(resolved, "locale")
      defaultLocale == Get(resolved, "defaultLocale")
      onError == Get(resolved, "onError")
      Diag(kind, api, named) ==
        [handler |-> onError.v, callable |-> onError.t = "function",
         kind |-> kind, api |-> api,
         locale |-> named, fallback |-> TemplateText(defaultLocale)]
  IN IF ~Truthy(locale)
     THEN IF Truthy(onError)
          THEN <<Diag("InvalidConfigError", "none", "none")>>
          ELSE <<>>
     ELSE IF NumberFormatSupportedLocalesOf(locale) = 0 /\ Truthy(onError)
     THEN <<Diag("MissingDataError", "Intl.NumberFormat", TemplateText(locale))>>
     ELSE IF DateTimeFormatSupportedLocalesOf(locale) = 0 /\ Truthy(onError)
     THEN <<Diag("MissingDataError", "Intl.DateTimeFormat", TemplateText(locale))>>
     ELSE <<>>

\* line 163: the fallback written to resolvedConfig.locale
ResolveLocale_NoEnglish(resolved) ==
  IF ~Truthy(Get(resolved, "locale"))
  THEN Spread(resolved, [locale |-> Get(resolved, "defaultLocale")])
  ELSE resolved

ResolveLocale(resolved) ==
  IF ~Truthy(Get(resolved, "locale"))
  THEN Spread(resolved,
              [locale |-> IF Truthy(Get(resolved, "defaultLocale"))
                          THEN Get(resolved, "defaultLocale")
                          ELSE Str("en")])
  ELSE resolved

\* createIntl(config, cache), called with the heap of caches and the identity
\* ref of the object it returns. The shape is {...resolvedConfig, formatters,
\* format*}: its configuration fields, and the cache its formatters and bound
\* functions close over.
createIntl_OwnCache(config, cache, heap, ref) ==
  LET formatters == createFormatters(0, heap)
  IN [shape |-> [ref |-> ref,
                 config |-> ResolveLocale(MergedConfig(config)),
                 formatters |-> formatters.cache],
      errors |-> LocaleDiagnostics(MergedConfig(config)),
      heap |-> formatters.heap]

createIntl(config, cache, heap, ref) ==
  LET formatters == createFormatters(cache, heap)
  IN [shape |-> [ref |-> ref,
                 config |-> ResolveLocale(MergedConfig(config)),
                 formatters |-> formatters.cache],
      errors |-> LocaleDiagnostics(MergedConfig(config)),
      heap |-> formatters.heap]

\* lines 151, 165, 173: onError(...) is a call, and calling a value that is
\* not a function raises a TypeError out of createIntl
Raises(errors) ==
  IF \E i \in 1..Len(errors) : ~errors[i].callable
  THEN "TypeError"
  ELSE "none"

\* the record of one createIntl call
CallRecord(config, cache, r) ==
  [config |-> config, cache |-> cache, shape |-> r.shape, errors |-> r.errors,
   threw |-> Raises(r.errors)]

----------------------------------------------------------------------------
(* IntlProvider *)

\* State.intl is optional: the state of a provider that holds no shape
NoShape == [ref |-> 0]

InitialState_RawProps(p) ==
  [cache |-> 1,
   intl |-> createIntl(processIntlConfig(p), 1, <<EmptyCache>>, 1).shape,
   prevConfig |-> p]

InitialState_NoIntl(p) ==
  [cache |-> 1,
   intl |-> NoShape,
   prevConfig |-> processIntlConfig(p)]

\* lines 241-246: the field initializers of a new provider given props p
InitialState(p) ==
  [cache |-> 1,
   intl |-> createIntl(processIntlConfig(p), 1, <<EmptyCache>>, 1).shape,
   prevConfig |-> processIntlConfig(p)]

\* getDerivedStateFromProps(props, state), called with the heap and the
\* identity a new shape would get. rebuilt tells whether it returned a
\* partial state (TRUE) or null; state is this.state after React merged it.
getDerivedStateFromProps_NoGate(p, st, heap, ref) ==
  LET config == processIntlConfig(p)
      r == createIntl(config, st.cache, heap, ref)
  IN [rebuilt |-> TRUE,
      state |-> [st EXCEPT !.intl = r.shape, !.prevConfig = config],
      calls |-> <<CallRecord(config, st.cache, r)>>,
      heap |-> r.heap]

getDerivedStateFromProps_DeepCompare(p, st, heap, ref) ==
  LET config == processIntlConfig(p)
      r == createIntl(config, st.cache, heap, ref)
  IN IF ~shallowEquals_Deep(st.prevConfig, config)
     THEN [rebuilt |-> TRUE,
           state |-> [st EXCEPT !.intl = r.shape, !.prevConfig = config],
           calls |-> <<CallRecord(config, st.cache, r)>>,
           heap |-> r.heap]
     ELSE [rebuilt |-> FALSE, state |-> st, calls |-> <<>>, heap |-> heap]

getDerivedStateFromProps_EditsShape(p, st, heap, ref) ==
  LET config == processIntlConfig(p)
      r == createIntl(config, st.cache, heap, ref)
  IN IF ~shallowEquals(st.prevConfig, config)
     THEN [rebuilt |-> TRUE,
           state |-> [st EXCEPT !.intl.config = r.shape.config,
                                !.prevConfig = config],
           calls |-> <<CallRecord(config, st.cache, r)>>,
           heap |-> r.heap]
     ELSE [rebuilt |-> FALSE, state |-> st, calls |-> <<>>, heap |-> heap]

getDerivedStateFromProps_NoCache(p, st, heap, ref) ==
  LET config == processIntlConfig(p)
      r == createIntl(config, 0, heap, ref)
  IN IF ~shallowEquals(st.prevConfig, config)
     THEN [rebuilt |-> TRUE,
           state |-> [st EXCEPT !.intl = r.shape, !.prevConfig = config],
           calls |-> <<CallRecord(config, 0, r)>>,
           heap |-> r.heap]
     ELSE [rebuilt |-> FALSE, state |-> st, calls |-> <<>>, heap |-> heap]

getDerivedStateFromProps_StaleMemo(p, st, heap, ref) ==
  LET config == processIntlConfig(p)
      r == createIntl(config, st.cache, heap, ref)
  IN IF ~shallowEquals(st.prevConfig, config)
     THEN [rebuilt |-> TRUE,
           state |-> [st EXCEPT !.intl = r.shape],
           calls |-> <<CallRecord(config, st.cache, r)>>,
           heap |-> r.heap]
     ELSE [rebuilt |-> FALSE, state |-> st, calls |-> <<>>, heap |-> heap]

getDerivedStateFromProps_MemoResolved(p, st, heap, ref) ==
  LET config == processIntlConfig(p)
      r == createIntl(config, st.cache, heap, ref)
  IN IF ~shallowEquals(st.prevConfig, config)
     THEN [rebuilt |-> TRUE,
           state |-> [st EXCEPT !.intl = r.shape,
                                !.prevConfig = processIntlConfig(r.shape.config)],
           calls |-> <<CallRecord(config, st.cache, r)>>,
           heap |-> r.heap]
     ELSE [rebuilt |-> FALSE, state |-> st, calls |-> <<>>, heap |-> heap]

getDerivedStateFromProps(p, st, heap, ref) ==
  LET config == processIntlConfig(p)
      r == createIntl(config, st.cache, heap, ref)
  IN IF ~shallowEquals(st.prevConfig, config)
     THEN [rebuilt |-> TRUE,
           state |-> [st EXCEPT !.intl = r.shape, !.prevConfig = config],
           calls |-> <<CallRecord(config, st.cache, r)>>,
           heap |-> r.heap]
     ELSE [rebuilt |-> FALSE, state |-> st, calls |-> <<>>, heap |-> heap]

\* invariantIntlContext of ../utils: render goes on only with a shape
invariantIntlContext(intl) == intl # NoShape

\* render(): the value handed to <Provider value=...>
render(st) == st.intl

----------------------------------------------------------------------------
(* The props a parent may deliver. *)

PropNames == RecognizedFields \cup {"children"}

\* the values a parent passes for a prop (undefined: the prop is not passed)
PropValues(k) ==
  CASE k = "locale" ->
         {Undefined, Str(""), Str("en"), Str("xx")}
    [] k = "timeZone" -> {Undefined, Str("UTC")}
    [] k = "formats" -> {Undefined, Obj("formats1"), Obj("formats2")}
    [] k = "textComponent" -> {Undefined, Str("span")}
    [] k = "messages" -> {Undefined, Obj("messages1"), Obj("messages2")}
    [] k = "defaultLocale" -> {Undefined, Str("fr")}
    [] k = "defaultFormats" -> {Undefined, Obj("defaultFormats1")}
    [] k = "onError" -> {Undefined, Fn("handler1")}
    [] k = "wrapRichTextChunksInFragment" -> {Undefined, Bool("true")}
    [] k = "defaultRichTextElements" -> {Undefined, Obj("elements1")}
    [] k = "children" -> {Str("child1"), Str("child2")}

\* the props of the first render: <IntlProvider locale=.. onError=..>child1</IntlProvider>
InitialProps ==
  {ResolveDefaultProps(
     [k \in PropNames |->
        CASE k = "locale" -> l
          [] k = "onError" -> e
          [] k = "children" -> Str("child1")
          [] OTHER -> Undefined]) :
     l \in {Undefined, Str("en")}, e \in {Undefined, Fn("handler1")}}

----------------------------------------------------------------------------
(* The provider's life: construction, mount, updates. *)

Changed(old, new) ==
  {k \in (DOMAIN old) \cup (DOMAIN new) : Get(old, k) # Get(new, k)}

Init ==
  /\ phase = "constructed"
  /\ props \in InitialProps
  /\ state = InitialState(props)
  /\ LET config == processIntlConfig(props)
         r == createIntl(config, 1, <<EmptyCache>>, 1)
     IN /\ caches = r.heap
        /\ calls = <<CallRecord(config, 1, r)>>
  /\ last = [op |-> "construct", rebuilt |-> TRUE, changed |-> {}]
  /\ got = {}
  /\ rich = NoRichText

\* React calls getDerivedStateFromProps with the props p it is about to render
Receive(op, p) ==
  LET r == getDerivedStateFromProps(p, state, caches, Len(calls) + 1)
  IN /\ r.rebuilt => Len(calls) < MaxCalls
     /\ props' = p
     /\ state' = r.state
     /\ caches' = r.heap
     /\ calls' = calls \o r.calls
     /\ last' = [op |-> op, rebuilt |-> r.rebuilt,
                 changed |-> Changed(state.prevConfig, processIntlConfig(p))]
     /\ UNCHANGED <<got, rich>>

\* the first render: getDerivedStateFromProps runs before render, with the
\* props the constructor saw
Mount ==
  /\ phase = "constructed"
  /\ phase' = "mounted"
  /\ Receive("mount", props)

\* the parent renders again with the same props
Rerender ==
  /\ phase = "mounted"
  /\ UNCHANGED phase
  /\ Receive("update", props)

\* the parent renders again with other children
UpdateChildren ==
  /\ phase = "mounted"
  /\ UNCHANGED phase
  /\ \E c \in PropValues("children") :
       /\ c # props["children"]
       /\ Receive("update", [props EXCEPT !["children"] = c])

\* the parent renders again and passes another value for one recognized prop
UpdateField ==
  /\ phase = "mounted"
  /\ UNCHANGED phase
  /\ \E k \in RecognizedFields : \E v \in PropValues(k) :
       LET p == ResolveDefaultProps([props EXCEPT ![k] = v])
       IN /\ p # props
          /\ Receive("update", p)

\* the parent switches language: another locale and another messages object
\* in one update
SwitchLanguage ==
  /\ phase = "mounted"
  /\ UNCHANGED phase
  /\ \E l \in PropValues("locale") : \E m \in PropValues("messages") :
       LET p == ResolveDefaultProps(
                  [props EXCEPT !["locale"] = l, !["messages"] = m])
       IN /\ p["locale"] # props["locale"]
          /\ p["messages"] # props["messages"]
          /\ Truthy(l)
          /\ Receive("update", p)

Next == Mount \/ Rerender \/ UpdateChildren \/ UpdateField \/ SwitchLanguage

Spec == Init /\ [][Next]_vars

----------------------------------------------------------------------------
(* The change-detection gate. *)

\* the recognized fields in which the props p differ from the memo
FieldsChanged(p, memo) ==
  {k \in RecognizedFields : Get(p, k) # Get(memo, k)}

\* the last createIntl call
LastCall == calls[Len(calls)]

\* C1. Stability: when the props React delivers agree with the held
\* prevConfig on every recognized field (each value ===), the gate returns
\* null: createIntl is not called, and the held shape (the same object) and
\* prevConfig stay as they are.
C1_Stability ==
  [][FieldsChanged(props', state.prevConfig) = {} =>
       /\ ~last'.rebuilt
       /\ calls' = calls
       /\ state'.intl = state.intl
       /\ state'.prevConfig = state.prevConfig]_vars

C1_Witness ==
  /\ last.op = "update"
  /\ last.changed = {}
  /\ ~last.rebuilt
  /\ Len(calls) >= 2
  /\ state.intl = LastCall.shape

\* what the resolved field k of a shape built from a configuration holding
\* v for k is: v itself, except that a locale that is absent or empty
\* resolves to the fallback locale and that defaultRichTextElements holds the
\* key-assigned copy of v
ResolvedField(k, v, config) ==
  CASE k = "locale" /\ ~Truthy(v) ->
         IF Truthy(config["defaultLocale"])
         THEN config["defaultLocale"]
         ELSE Str("en")
    [] k = "defaultRichTextElements" /\ Truthy(v) -> Obj("keyed(" \o v.v \o ")")
    [] OTHER -> v

\* C2. Change propagation: for each of the ten recognized fields, when the
\* delivered props differ from prevConfig in that one field, the gate
\* rebuilds: createIntl is called once, a new shape object replaces the held
\* one, and its resolved field is the one the new value resolves to.
C2_ChangePropagation ==
  [][\A k \in RecognizedFields :
       FieldsChanged(props', state.prevConfig) = {k} =>
         /\ last'.rebuilt
         /\ Len(calls') = Len(calls) + 1
         /\ state'.intl.ref # state.intl.ref
         /\ k \in DOMAIN state'.intl.config
         /\ state'.intl.config[k] = ResolvedField(k, props'[k], props')]_vars

\* every recognized field has been the single changed field of some rebuild;
\* here the last rebuild changed the locale to one given explicitly
C2_Witness ==
  /\ last.op = "update"
  /\ last.rebuilt
  /\ last.changed = {"locale"}
  /\ state.intl.config["locale"] = Str("xx")
  /\ props["locale"] = Str("xx")

\* C5. The normalized configuration holds exactly the ten recognized fields,
\* and an update that leaves every recognized prop === (whatever it does to
\* children) never rebuilds and changes neither the held shape nor the memo.
C5_OnlyRecognizedFields ==
  /\ [](DOMAIN state.prevConfig = RecognizedFields)
  /\ [][(\A k \in RecognizedFields : props'[k] = props[k]) =>
          /\ calls' = calls
          /\ state'.intl = state.intl
          /\ state'.prevConfig = state.prevConfig]_vars

C5_Witness ==
  /\ last.op = "update"
  /\ ~last.rebuilt
  /\ props["children"] = Str("child2")
  /\ "children" \notin DOMAIN state.prevConfig
  /\ Len(calls) = 1

\* two different objects with the same content
SameContentOtherObject(a, b) ==
  /\ a.t = "object" /\ b.t = "object"
  /\ a # b
  /\ ObjectContent(a.v) = ObjectContent(b.v)

\* C6. The gate compares messages and formats by reference: an update that
\* passes an object with the same content as the one in prevConfig but
\* another reference rebuilds and replaces the shape; an update that passes
\* the same reference (nothing else changing) does not.
C6_ReferenceComparison ==
  [][\A k \in {"messages", "formats"} :
       /\ SameContentOtherObject(Get(state.prevConfig, k), props'[k]) =>
            /\ last'.rebuilt
            /\ state'.intl.ref # state.intl.ref
            /\ state'.intl.config[k] = props'[k]
            /\ state'.prevConfig[k] = props'[k]
       /\ (Get(state.prevConfig, k) = props'[k]
             /\ FieldsChanged(props', state.prevConfig) = {}) =>
            state'.intl = state.intl]_vars

C6_Witness ==
  /\ last.op = "update"
  /\ last.rebuilt
  /\ last.changed = {"messages"}
  /\ Len(calls) >= 2
  /\ SameContentOtherObject(calls[Len(calls) - 1].config["messages"],
                            state.prevConfig["messages"])
  /\ state.intl.config["messages"] = state.prevConfig["messages"]

----------------------------------------------------------------------------
(* The lifecycle of the shape and of the memo. *)

\* the shapes createIntl has returned so far
ShapesBuilt == {calls[i].shape : i \in 1..Len(calls)}

\* C9 as stated: one shape per distinct normalized configuration (no two
\* createIntl calls of a provider get shallow-equal configurations), and the
\* held shape is one of the shapes built, as it was built.
C9_OncePerDistinctConfiguration ==
  /\ \A i, j \in 1..Len(calls) :
       i # j => ~shallowEquals(calls[i].config, calls[j].config)
  /\ state.intl \in ShapesBuilt

\* C9, amended. A shape is built once per change of the normalized
\* configuration: a step builds a shape exactly when the delivered props
\* differ from the memo in a recognized field, so consecutive builds never
\* get shallow-equal configurations (a configuration that comes back after
\* another one is built again). A shape is never mutated: the held shape is a
\* shape createIntl returned, as returned, and the record of the shapes
\* built only grows. A rebuild supersedes: the shape held after it is a new
\* object.
C9_ShapeLifecycle ==
  /\ [](/\ state.intl = LastCall.shape
        /\ state.intl.ref = Len(calls)
        /\ \A i \in 1..Len(calls) - 1 :
             ~shallowEquals(calls[i].config, calls[i + 1].config))
  /\ [][/\ SubSeq(calls', 1, Len(calls)) = calls
        /\ (Len(calls') = Len(calls) + 1) <=>
             (FieldsChanged(props', state.prevConfig) # {})
        /\ Len(calls') \in {Len(calls), Len(calls) + 1}
        /\ (state'.intl # state.intl) =>
             /\ state'.intl \notin ShapesBuilt
             /\ \A sh \in ShapesBuilt : sh.ref # state'.intl.ref]_vars

\* the configuration of the first build came back and was built again
C9_Witness ==
  /\ Len(calls) = 3
  /\ shallowEquals(calls[1].config, calls[3].config)
  /\ ~shallowEquals(calls[1].config, calls[2].config)
  /\ state.intl = calls[3].shape
  /\ state.intl.ref # calls[1].shape.ref

\* the normalization of the props the provider last received
NormalizedProps == [k \in RecognizedFields |-> Get(props, k)]

\* C10. Memo coherence: prevConfig is replaced in the step that rebuilds and
\* in no other, by the normalized configuration createIntl was given; so in
\* every state prevConfig is shallow-equal to the normalization of the props
\* last received, and the held shape is the one createIntl built from it.
C10_MemoCoherence ==
  /\ [](/\ shallowEquals(state.prevConfig, NormalizedProps)
        /\ LastCall.config = state.prevConfig
        /\ state.intl = LastCall.shape
        /\ state.intl.config = ResolveLocale(MergedConfig(state.prevConfig)))
  /\ [][/\ (state'.prevConfig # state.prevConfig) <=>
             (Len(calls') = Len(calls) + 1)
        /\ (state'.prevConfig # state.prevConfig) <=> last'.rebuilt
        /\ (state'.prevConfig # state.prevConfig) <=>
             (state'.intl # state.intl)]_vars

C10_Witness ==
  /\ last.op = "update"
  /\ last.rebuilt
  /\ Cardinality(last.changed) = 1
  /\ Len(calls) = 3
  /\ state.prevConfig = NormalizedProps
  /\ state.prevConfig # calls[2].config
  /\ state.intl = calls[3].shape

----------------------------------------------------------------------------
(* createIntl called directly: createIntl(config, cache?) is exported. *)

\* the configurations a caller passes: locale, defaultLocale and onError are
\* left out, undefined or given; the other fields are either all left out or
\* all present (as processIntlConfig leaves them), and the object may carry
\* a key that is no configuration field
DirectConfigs ==
  LET Choices(k) ==
        CASE k = "locale" ->
               {Undefined, Str(""), Str("en"), Str("xx"), Str("nn"), Str("dd")}
          [] k = "defaultLocale" -> {Undefined, Str(""), Str("fr")}
          [] k = "onError" -> {Undefined, Fn("handler1")}
      Chosen == {"locale", "defaultLocale", "onError"}
      Others == RecognizedFields \ Chosen
  IN UNION {
       {[k \in D \cup O |-> IF k \in D THEN f[k]
                            ELSE IF k = "children" THEN Str("child1")
                            ELSE Undefined] :
          f \in [D -> UNION {Choices(k) : k \in Chosen}]} :
       D \in SUBSET Chosen, O \in {{}, Others, Others \cup {"children"}}}

\* a configuration holds for each field a value of that field
WellTyped(config) ==
  /\ Get(config, "locale").t \in {"undefined", "string"}
  /\ Get(config, "defaultLocale").t \in {"undefined", "string"}
  /\ Get(config, "defaultLocale").v \in {"undefined", "", "fr"}
  /\ Get(config, "onError").t \in {"undefined", "function"}

\* there is no provider
NoProvider == [cache |-> 0]

\* the caller holds a configuration (in props) and maybe a cache made by
\* createIntlCache(): last.cache is the cache argument, 0 when none is passed,
\* last.input the configuration the caller started from and last.normalized
\* the results of the processIntlConfig calls made so far
InitIntl ==
  /\ phase = "direct"
  /\ props \in {c \in DirectConfigs : WellTyped(c)}
  /\ state = NoProvider
  /\ caches = <<EmptyCache>>
  /\ calls = <<>>
  /\ \E c \in {0, 1} :
       last = [op |-> "idle", cache |-> c, input |-> props, normalized |-> <<>>]
  /\ got = {}
  /\ rich = NoRichText

\* createIntl(config, cache)
DirectCall ==
  /\ phase = "direct"
  /\ LET r == createIntl(props, last.cache, caches, Len(calls) + 1)
     IN /\ calls' = Append(calls, CallRecord(props, last.cache, r))
        /\ caches' = r.heap
  /\ phase' = "returned"
  /\ last' = [last EXCEPT !.op = "createIntl"]
  /\ UNCHANGED <<props, state, got, rich>>

\* the caller normalizes the configuration it holds, as the provider does
\* with its props, and goes on with the result
Normalize ==
  /\ phase = "direct"
  /\ Len(last.normalized) < MaxNormalize
  /\ props' = processIntlConfig(props)
  /\ last' = [last EXCEPT !.op = "processIntlConfig",
                          !.normalized = Append(@, processIntlConfig(props))]
  /\ UNCHANGED <<phase, state, caches, calls, got, rich>>

\* createIntl again, with the same configuration but for an onError
DirectCallWithHandler ==
  /\ phase = "returned"
  /\ LET config == Spread(props, [onError |-> Fn("handler2")])
         r == createIntl(config, last.cache, caches, Len(calls) + 1)
     IN /\ calls' = Append(calls, CallRecord(config, last.cache, r))
        /\ caches' = r.heap
  /\ phase' = "compared"
  /\ UNCHANGED <<props, state, last, got, rich>>

NextIntl == Normalize \/ DirectCall \/ DirectCallWithHandler

SpecIntl == InitIntl /\ [][NextIntl]_vars

\* the fallback locale of a configuration: its defaultLocale, "en" when it
\* has none
Fallback(config) ==
  IF Truthy(Get(config, "defaultLocale"))
  THEN Get(config, "defaultLocale")
  ELSE Str("en")

\* C3. Fallback correctness: a createIntl call whose configuration has no
\* locale (absent, undefined or empty) returns a shape whose locale is the
\* configuration's defaultLocale, "en" when that is absent too; and an
\* onError the configuration supplies is invoked exactly once in the call,
\* with an InvalidConfigError and no MissingDataError.
C3_FallbackCorrectness ==
  \A i \in 1..Len(calls) :
    LET c == calls[i] IN
    ~Truthy(Get(c.config, "locale")) =>
      /\ c.shape.config["locale"] = Fallback(c.config)
      /\ Truthy(c.shape.config["locale"])
      /\ Truthy(Get(c.config, "onError")) =>
           /\ Len(c.errors) = 1
           /\ c.errors[1].kind = "InvalidConfigError"
           /\ c.errors[1].handler = c.config["onError"].v

C3_Witness ==
  /\ Len(calls) = 1
  /\ "locale" \in DOMAIN calls[1].config
  /\ calls[1].config["locale"] = Undefined
  /\ Get(calls[1].config, "defaultLocale") = Undefined
  /\ Get(calls[1].config, "onError") = Fn("handler1")
  /\ calls[1].shape.config["locale"] = Str("en")
  /\ Len(calls[1].errors) = 1

\* C4. Missing-data advisory: a createIntl call with a non-empty locale the
\* platform lacks number-format or date/time-format data for, and with an
\* onError supplied, reports exactly one diagnostic, a MissingDataError; it
\* is the Intl.NumberFormat one whenever number-format data is missing; and
\* the shape keeps the requested locale.
C4_MissingDataAdvisory ==
  \A i \in 1..Len(calls) :
    LET c == calls[i]
        locale == Get(c.config, "locale")
        noNumber == locale.v \notin NumberFormatSupported
        noDateTime == locale.v \notin DateTimeFormatSupported
    IN (Truthy(locale) /\ (noNumber \/ noDateTime)
          /\ Truthy(Get(c.config, "onError"))) =>
         /\ Len(c.errors) = 1
         /\ c.errors[1].kind = "MissingDataError"
         /\ c.errors[1].locale = locale.v
         /\ c.errors[1].api =
              IF noNumber THEN "Intl.NumberFormat" ELSE "Intl.DateTimeFormat"
         /\ c.shape.config["locale"] = locale

\* a locale neither capability supports, with a defaultLocale at hand
C4_Witness ==
  /\ Len(calls) = 1
  /\ Get(calls[1].config, "locale") = Str("xx")
  /\ Get(calls[1].config, "defaultLocale") = Str("fr")
  /\ Get(calls[1].config, "onError") = Fn("handler1")
  /\ calls[1].errors[1].api = "Intl.NumberFormat"
  /\ calls[1].shape.config["locale"] = Str("xx")

\* the onError of the resolved configuration of a createIntl call: the one
\* its configuration carries, the default handler when it has no such key
ResolvedOnError(config) ==
  IF "onError" \in DOMAIN config
  THEN config["onError"]
  ELSE DEFAULT_INTL_CONFIG["onError"]

C14_ChecksExclusiveAndOrdered ==
  \A i \in 1..Len(calls) :
    LET c == calls[i]
        locale == Get(c.config, "locale")
        noNumber == locale.v \notin NumberFormatSupported
        noDateTime == locale.v \notin DateTimeFormatSupported
        first == IF ~Truthy(locale) THEN "none"
                 ELSE IF noNumber THEN "Intl.NumberFormat"
                 ELSE IF noDateTime THEN "Intl.DateTimeFormat"
                 ELSE "no check matches"
    IN /\ Len(c.errors) <= 1
       /\ Len(c.errors) = 1 =>
            /\ c.errors[1].api = first
            /\ c.errors[1].kind = IF Truthy(locale) THEN "MissingDataError"
                                  ELSE "InvalidConfigError"
       /\ (Truthy(ResolvedOnError(c.config)) /\ first # "no check matches") =>
            Len(c.errors) = 1

\* a locale with number data and no date/time data: the third check reports
C14_Witness ==
  /\ Len(calls) = 1
  /\ Get(calls[1].config, "locale") = Str("dd")
  /\ "dd" \in NumberFormatSupported
  /\ Len(calls[1].errors) = 1
  /\ calls[1].errors[1].api = "Intl.DateTimeFormat"

\* C15. When locale is absent and an onError is configured, the locale the
\* InvalidConfigError names as the fallback is the effective locale of the
\* returned shape, for every defaultLocale, absent included.
C15_DiagnosticNamesFallback ==
  \A i \in 1..Len(calls) :
    \A j \in 1..Len(calls[i].errors) :
      calls[i].errors[j].kind = "InvalidConfigError" =>
        calls[i].errors[j].fallback = calls[i].shape.config["locale"].v

\* the argument of the j-th processIntlConfig call of the caller
NormalizerInput(j) == IF j = 1 THEN last.input ELSE last.normalized[j - 1]

\* the fields of the resolved configuration that createIntl takes from its
\* configuration as they are
MergedFields == RecognizedFields \ {"locale", "defaultRichTextElements"}

\* C13. Round trip: processIntlConfig of a processIntlConfig result is
\* shallow-equal to that result, both having exactly the ten recognized
\* keys with reference-equal values.
C13_NormalizerRoundTrip ==
  /\ \A j \in 1..Len(last.normalized) :
       DOMAIN last.normalized[j] = RecognizedFields
  /\ \A j \in 2..Len(last.normalized) :
       /\ shallowEquals(last.normalized[j], last.normalized[j - 1])
       /\ \A k \in RecognizedFields :
            last.normalized[j][k] = last.normalized[j - 1][k]

\* a configuration with an extra key and without a locale key, normalized
\* twice: the first result is another record, the second the same
C13_Witness ==
  /\ Len(last.normalized) = 2
  /\ "children" \in DOMAIN last.input
  /\ "locale" \notin DOMAIN last.input
  /\ ~shallowEquals(last.normalized[1], last.input)
  /\ shallowEquals(last.normalized[2], last.normalized[1])

\* C17, as stated. The normalizer applies defaults: a recognized field that
\* is absent or undefined in the argument holds its default in the
\* normalized record, and in the resolved configuration built from it.
C17_NormalizerAppliesDefaults ==
  /\ \A j \in 1..Len(last.normalized) :
       \A k \in DOMAIN DEFAULT_INTL_CONFIG :
         Get(NormalizerInput(j), k) = Undefined =>
           last.normalized[j][k] = DEFAULT_INTL_CONFIG[k]
  /\ (Len(last.normalized) >= 1 /\ Len(calls) >= 1) =>
       \A k \in DOMAIN DEFAULT_INTL_CONFIG :
         Get(last.input, k) = Undefined =>
           calls[1].shape.config[k] = DEFAULT_INTL_CONFIG[k]

\* C17, amended. The normalizer applies no defaults: every recognized field
\* of the normalized record holds what the argument holds, undefined when
\* the argument has no such key or holds undefined; and the resolved
\* configuration built from a normalized record carries the normalized
\* value of each field, undefined included, in place of the base default.
C17_NormalizerPassesThrough ==
  /\ \A j \in 1..Len(last.normalized) :
       /\ DOMAIN last.normalized[j] = RecognizedFields
       /\ \A k \in RecognizedFields :
            /\ last.normalized[j][k] = Get(NormalizerInput(j), k)
            /\ k \notin DOMAIN NormalizerInput(j) =>
                 last.normalized[j][k] = Undefined
  /\ (Len(last.normalized) >= 1 /\ Len(calls) >= 1) =>
       \A k \in MergedFields :
         /\ calls[1].config[k] = Get(last.input, k)
         /\ calls[1].shape.config[k] = Get(last.input, k)

\* a configuration without a messages key, normalized and passed to
\* createIntl: the shape's messages are undefined, not the default ones
C17_Witness ==
  /\ Len(last.normalized) = 1
  /\ Len(calls) = 1
  /\ "messages" \notin DOMAIN last.input
  /\ last.normalized[1]["messages"] = Undefined
  /\ calls[1].shape.config["messages"] = Undefined
  /\ DEFAULT_INTL_CONFIG["messages"] # Undefined

----------------------------------------------------------------------------
(* The provider and the consumers of its shapes: formatter-accessor calls. *)

FormatterKinds == {"number", "dateTime"}
OptionObjects == {"options1", "options2", "options3"}

InitCache ==
  /\ Init
  /\ props["locale"] = Str("en")
  /\ props["onError"] = Fn("handler1")

\* the parent passes another locale or another messages object
UpdateLocaleOrMessages ==
  /\ phase = "mounted"
  /\ UNCHANGED phase
  /\ \E k \in {"locale", "messages"} :
     \E v \in {Str("en"), Str("xx"), Obj("messages1"), Obj("messages2")} :
       /\ v.t = (IF k = "locale" THEN "string" ELSE "object")
       /\ v # props[k]
       /\ Receive("update", [props EXCEPT ![k] = v])

\* a consumer formats through the shape the provider provides: the bound
\* function calls the accessor of the shape's bundle with the shape's locale
\* and the options of the call
GetFormatter ==
  /\ phase = "mounted"
  /\ Cardinality(got) < MaxGets
  /\ \E kind \in FormatterKinds : \E o \in OptionObjects :
       LET shape == render(state)
           key == FormatterKey(kind, shape.config["locale"], o)
           r == getFormatter(shape.formatters, caches, key)
       IN /\ caches' = r.heap
          /\ got' = got \cup {[shape |-> shape.ref, kind |-> kind, options |-> o,
                                formatter |-> r.formatter,
                                made |-> (key \notin DOMAIN caches[shape.formatters])]}
  /\ UNCHANGED <<phase, props, state, calls, last, rich>>

NextCache == Mount \/ UpdateLocaleOrMessages \/ GetFormatter

SpecCache == InitCache /\ [][NextCache]_vars

\* two configurations are key-equal: the same keys, each holding the same
\* primitive or an object of the same content
KeyEqual(a, b) ==
  /\ DOMAIN a = DOMAIN b
  /\ \A k \in DOMAIN a :
       \/ a[k] = b[k]
       \/ /\ a[k].t = "object" /\ b[k].t = "object"
          /\ ObjectContent(a[k].v) = ObjectContent(b[k].v)

\* the createIntl call that returned the shape with identity ref
CallOf(ref) == calls[CHOOSE i \in 1..Len(calls) : calls[i].shape.ref = ref]

\* C7. Cache reuse: when two createIntl calls got key-equal configurations
\* and the same cache, accessor calls through the two shapes for the same
\* formatter kind and key-equal options return the same formatter instance,
\* the shapes being two objects; and two accessor calls over one cache with
\* the same kind, locale and key-equal options return the same instance.
C7_CacheReuse ==
  \A g, h \in got :
    LET cg == CallOf(g.shape)
        ch == CallOf(h.shape)
        sameOptions == /\ g.kind = h.kind
                       /\ ObjectContent(g.options) = ObjectContent(h.options)
    IN /\ (cg.cache # 0 /\ cg.cache = ch.cache /\ KeyEqual(cg.config, ch.config)
            /\ sameOptions) =>
            g.formatter = h.formatter
       /\ (cg.shape.formatters = ch.shape.formatters
            /\ cg.shape.config["locale"] = ch.shape.config["locale"]
            /\ sameOptions) =>
            g.formatter = h.formatter

\* two shapes built from key-equal configurations, two option objects of the
\* same content, one formatter
C7_Witness ==
  \E g, h \in got :
    /\ g.shape # h.shape
    /\ CallOf(g.shape).shape # CallOf(h.shape).shape
    /\ KeyEqual(CallOf(g.shape).config, CallOf(h.shape).config)
    /\ CallOf(g.shape).cache = CallOf(h.shape).cache
    /\ g.kind = h.kind
    /\ g.options # h.options
    /\ ObjectContent(g.options) = ObjectContent(h.options)
    /\ g.made /\ ~h.made
    /\ g.formatter = h.formatter

\* C8. The cache outlives the shapes: state.cache is always the cache made at
\* construction, every createIntl call of the provider is given it and every
\* shape's accessors close over it; no step removes or replaces an entry of
\* it; so a formatter made through an earlier shape is the one returned for
\* key-equal arguments through every later shape.
C8_CacheAcrossRebuilds ==
  /\ [](/\ state.cache = 1
        /\ \A i \in 1..Len(calls) :
             /\ calls[i].cache = state.cache
             /\ calls[i].shape.formatters = state.cache
        /\ state.intl.formatters = state.cache
        /\ \A g, h \in got :
             (/\ g.kind = h.kind
              /\ ObjectContent(g.options) = ObjectContent(h.options)
              /\ CallOf(g.shape).shape.config["locale"]
                   = CallOf(h.shape).shape.config["locale"]) =>
               g.formatter = h.formatter)
  /\ [][/\ state'.cache = state.cache
        /\ Len(caches') >= Len(caches)
        /\ \A k \in DOMAIN caches[state.cache] :
             /\ k \in DOMAIN caches'[state.cache]
             /\ caches'[state.cache][k] = caches[state.cache][k]]_vars

\* a formatter made through the first shape is returned through the third,
\* after two rebuilds
C8_Witness ==
  /\ Len(calls) = 3
  /\ caches[state.cache] # EmptyCache
  /\ \E g, h \in got :
       /\ g.shape = 1 /\ g.made
       /\ h.shape = 3 /\ ~h.made
       /\ state.intl.ref = 3
       /\ g.kind = h.kind
       /\ g.formatter = h.formatter

----------------------------------------------------------------------------
(* The provider again: a missing locale, the mount, the rendered value. *)

\* the diagnostics reported so far, over all createIntl calls
RECURSIVE DiagnosticsOf(_)
DiagnosticsOf(cs) ==
  IF cs = <<>> THEN 0 ELSE Len(Head(cs).errors) + DiagnosticsOf(Tail(cs))

\* C18. createIntl leaves the configuration it is given as it is, so the
\* memo of a provider whose props have no locale keeps the locale absent
\* while the shape holds the fallback; an update of such a provider with
\* props shallow-equal to the memo in the recognized fields builds nothing
\* and reports nothing; and the InvalidConfigError is reported once per
\* build from a configuration without locale, whatever the number of
\* updates.
C18_DiagnosticOncePerRebuild ==
  /\ [](/\ ~Truthy(props["locale"]) =>
             /\ state.prevConfig["locale"] = props["locale"]
             /\ LastCall.config["locale"] = props["locale"]
             /\ Truthy(state.intl.config["locale"])
        /\ DiagnosticsOf(calls) =
             Cardinality({i \in 1..Len(calls) :
                            /\ Truthy(calls[i].config["onError"])
                            /\ \/ ~Truthy(calls[i].config["locale"])
                               \/ calls[i].config["locale"].v
                                    \notin NumberFormatSupported
                                          \cap DateTimeFormatSupported}))
  /\ [][(~Truthy(props'["locale"]) /\ FieldsChanged(props', state.prevConfig) = {}) =>
          /\ calls' = calls
          /\ state' = state
          /\ DiagnosticsOf(calls') = DiagnosticsOf(calls)]_vars

\* a provider without locale was rebuilt for a defaultLocale, reported
\* once more, and then got an update that changes no recognized field
C18_Witness ==
  /\ last.op = "update"
  /\ ~last.rebuilt
  /\ props["locale"] = Undefined
  /\ Len(calls) = 2
  /\ DiagnosticsOf(calls) = 2
  /\ LastCall.errors[1].kind = "InvalidConfigError"
  /\ state.intl.config["locale"] = Str("fr")
  /\ state.prevConfig["locale"] = Undefined

\* C19. Mount: the constructor calls createIntl once, the initial state
\* holds the shape built from the normalized initial props and a memo
\* shallow-equal to them, so the getDerivedStateFromProps call of the mount
\* builds nothing, and a locale diagnostic of the initial configuration is
\* reported exactly once.
C19_MountBuildsOnce ==
  (phase = "constructed" \/ last.op = "mount") =>
    /\ Len(calls) = 1
    /\ calls[1].config = NormalizedProps
    /\ state.intl = calls[1].shape
    /\ shallowEquals(state.prevConfig, NormalizedProps)
    /\ last.op = "mount" => ~last.rebuilt
    /\ DiagnosticsOf(calls) =
         IF Truthy(props["onError"]) /\ ~Truthy(props["locale"]) THEN 1 ELSE 0

\* a provider without locale and with an onError, mounted
C19_Witness ==
  /\ phase = "mounted"
  /\ last.op = "mount"
  /\ props["locale"] = Undefined
  /\ props["onError"] = Fn("handler1")
  /\ Len(calls) = 1
  /\ DiagnosticsOf(calls) = 1

\* C20. In every state of the provider state.intl is defined, so the
\* invariant of render holds, and the value render provides is the shape
\* the provider holds, the one its last createIntl call returned.
C20_RenderedShape ==
  /\ state.intl # NoShape
  /\ invariantIntlContext(state.intl)
  /\ render(state) = state.intl
  /\ render(state) = LastCall.shape

\* after a rebuild and an update that builds nothing, render provides the
\* second shape
C20_Witness ==
  /\ phase = "mounted"
  /\ Len(calls) = 2
  /\ ~last.rebuilt
  /\ invariantIntlContext(state.intl)
  /\ render(state) = calls[2].shape
  /\ render(state) # calls[1].shape

----------------------------------------------------------------------------
(* Rich-text formatting: formatMessage and the key assignment of its values. *)

\* a values map as an object: its identity and its entries
ValuesObject(ref, m) == [t |-> "object", v |-> ref, entries |-> m]

\* the reduce started from the argument instead of from {}
assignUniqueKeysToValues_InPlace(values) ==
  IF ~Truthy(values)
  THEN [result |-> values, argument |-> values]
  ELSE LET written == [values EXCEPT !.entries = AssignedEntries(@)]
       IN [result |-> written, argument |-> written]

\* assignUniqueKeysToFormatXMLElementFnArgument(values) on a map with its
\* entries: what it returns, and the argument object as the call leaves it
assignUniqueKeysToValues(values) ==
  IF ~Truthy(values)
  THEN [result |-> values, argument |-> values]
  ELSE [result |->
          ValuesObject(
            assignUniqueKeysToFormatXMLElementFnArgument(Obj(values.v)).v,
            AssignedEntries(values.entries)),
        argument |-> values]

\* the functions callers write: each returns an element around its chunks,
\* boldKeyed with a key of its own
UserFunctions == {"bold", "boldKeyed", "italic"}

\* element keys: none, the one a user function gives, the token given by a
\* function that assignUniqueKeysToParts returned
NoKey == [by |-> "none", id |-> "", n |-> 0]
UserKey(id) == [by |-> "user", id |-> id, n |-> 0]
Token(f, n) == [by |-> "assignUniqueKeysToParts", id |-> f, n |-> n]

Text(x) == [kind |-> "text", tag |-> x, key |-> NoKey]
Element(tag, key) == [kind |-> "element", tag |-> tag, key |-> key]

\* the fragment a user function returns
UserFragment(u) ==
  CASE u = "bold" -> Element("b", NoKey)
    [] u = "boldKeyed" -> Element("b", UserKey("b"))
    [] u = "italic" -> Element("i", NoKey)

\* the fragment the n-th invocation of function f returns within one
\* formatMessage call; a wrapped function gives the fragment of the function
\* it wraps a token of its own
Invoke(f, n) ==
  IF f.v \in UserFunctions
  THEN UserFragment(f.v)
  ELSE
         LET u == CHOOSE x \in UserFunctions : f = assignUniqueKeysToParts(Fn(x))
         IN [UserFragment(u) EXCEPT !.key = Token(u, n)]

\* the messages that are formatted: a text followed by Expansions
\* occurrences of the tag b, and a text alone
RichMessage == [p \in 1..(Expansions + 1) |-> IF p = 1 THEN "List: " ELSE "<b>"]
PlainMessage == <<"Hello">>

\* coreFormatMessage of @formatjs/intl: a string for a message without
\* tags, otherwise the parts, each tag expanded by invoking its value
coreFormatMessage(message, values) ==
  IF \A p \in 1..Len(message) : message[p] # "<b>"
  THEN [array |-> FALSE, parts |-> <<Text(message[1])>>]
  ELSE [array |-> TRUE,
        parts |-> [p \in 1..Len(message) |->
                     IF message[p] = "<b>"
                     THEN Invoke(values.entries["b"],
                                 Cardinality({q \in 1..p : message[q] = "<b>"}))
                     ELSE Text(message[p])]]

\* React.Children.toArray: an element gets a key made of the key it has,
\* or of its position when it has none; a text stays as it is
ChildrenToArray(parts) ==
  [p \in 1..Len(parts) |->
     IF parts[p].kind # "element" THEN parts[p]
     ELSE IF parts[p].key = NoKey
     THEN [parts[p] EXCEPT !.key = [by |-> "position", id |-> ".", n |-> p - 1]]
     ELSE [parts[p] EXCEPT !.key.id = ".$" \o @]]

formatMessage_Core(message, rawValues) == coreFormatMessage(message, rawValues)

\* lines 108-125: formatMessage(config, formatters, descriptor, rawValues)
formatMessage(message, rawValues) ==
  LET values == assignUniqueKeysToValues(rawValues).result
      chunks == coreFormatMessage(message, values)
  IN IF chunks.array
     THEN [chunks EXCEPT !.parts = ChildrenToArray(@)]
     ELSE chunks

\* the values maps callers pass: b, i and sep each left out or given
ValueMaps ==
  LET Choices(k) ==
        CASE k = "b" -> {Fn("bold"), Fn("boldKeyed"), Str("x")}
          [] k = "i" -> {Fn("italic"), Str("y")}
          [] k = "sep" -> {Str("|"), Undefined}
      Keys == {"b", "i", "sep"}
  IN UNION {{f \in [D -> UNION {Choices(k) : k \in Keys}] :
               \A k \in D : f[k] \in Choices(k)} : D \in SUBSET Keys}

\* a caller holds the values of a formatMessage call, or none
InitRich ==
  /\ phase = "formatting"
  /\ props = [locale |-> Str("en")]
  /\ state = NoProvider
  /\ caches = <<EmptyCache>>
  /\ calls = <<>>
  /\ last = [op |-> "idle"]
  /\ got = {}
  /\ \E v \in {Undefined} \cup {ValuesObject("values1", m) : m \in ValueMaps} :
       rich = [values |-> v, assigned |-> <<>>, formatted |-> <<>>]

\* assignUniqueKeysToFormatXMLElementFnArgument(values)
AssignKeys ==
  /\ Len(rich.assigned) < MaxAssigns
  /\ LET r == assignUniqueKeysToValues(rich.values)
     IN rich' = [rich EXCEPT !.values = r.argument,
                             !.assigned = Append(@, [argument |-> rich.values,
                                                     result |-> r.result])]
  /\ last' = [op |-> "assignUniqueKeys"]
  /\ UNCHANGED <<phase, props, state, caches, calls, got>>

\* intl.formatMessage(descriptor, values): the rich message when the values
\* have a function for its tag, the plain one at any time
FormatMessage ==
  /\ Len(rich.formatted) < MaxFormats
  /\ \E message \in {RichMessage, PlainMessage} :
       /\ (message = RichMessage) =>
            /\ Truthy(rich.values)
            /\ isFormatXMLElementFn(Get(rich.values.entries, "b"))
       /\ rich' = [rich EXCEPT !.formatted =
                     Append(@, [message |-> message,
                                result |-> formatMessage(message, rich.values)])]
  /\ last' = [op |-> "formatMessage"]
  /\ UNCHANGED <<phase, props, state, caches, calls, got>>

NextRich == AssignKeys \/ FormatMessage

SpecRich == InitRich /\ [][NextRich]_vars

\* the positions of the fragments in a formatMessage result
Fragments(result) ==
  {p \in 1..Len(result.parts) : result.parts[p].kind = "element"}

\* C12. Rich-text identity: every formatMessage call of the message whose
\* renderable-function placeholder is expanded three times, the first and
\* the second call alike, returns three fragments that each carry a key,
\* the keys being pairwise distinct within the call.
C12_RichTextIdentity ==
  \A c \in 1..Len(rich.formatted) :
    LET f == rich.formatted[c] IN
    f.message = RichMessage =>
      /\ f.result.array
      /\ Cardinality(Fragments(f.result)) = Expansions
      /\ \A p \in Fragments(f.result) : f.result.parts[p].key # NoKey
      /\ \A p, q \in Fragments(f.result) :
           p # q => f.result.parts[p].key # f.result.parts[q].key

\* the message formatted twice with a function that gives every fragment
\* the same key of its own
C12_Witness ==
  /\ Len(rich.formatted) = 2
  /\ rich.formatted[1].message = RichMessage
  /\ rich.formatted[2].message = RichMessage
  /\ rich.values.entries["b"] = Fn("boldKeyed")
  /\ Cardinality(Fragments(rich.formatted[2].result)) = Expansions
  /\ rich.formatted[1].result = rich.formatted[2].result

\* C16. Rich-text key assignment is pure with respect to its input map: the
\* call returns a new map with the key set of the argument, in which each
\* value that is no function is the argument's value and each function is
\* replaced by a wrapped function, and the argument is after the call what
\* it was before.
C16_KeyAssignmentIsPure ==
  \A c \in 1..Len(rich.assigned) :
    LET a == rich.assigned[c] IN
    /\ rich.values = a.argument
    /\ Truthy(a.argument) =>
         /\ a.result.v # a.argument.v
         /\ DOMAIN a.result.entries = DOMAIN a.argument.entries
         /\ \A k \in DOMAIN a.argument.entries :
              LET v == a.argument.entries[k]
                  w == a.result.entries[k]
              IN IF v.t = "function"
                 THEN w.t = "function" /\ w # v /\ w.v = "keyed(" \o v.v \o ")"
                 ELSE w = v

\* a map with a function and a value that is none
C16_Witness ==
  /\ Len(rich.assigned) = 1
  /\ Truthy(rich.values)
  /\ DOMAIN rich.values.entries = {"b", "sep"}
  /\ rich.values.entries["b"] = Fn("bold")
  /\ rich.assigned[1].result.entries["b"] = Fn("keyed(bold)")
  /\ rich.assigned[1].result.entries["sep"] = rich.values.entries["sep"]

====
